---- MODULE Spec2Model ----
(***************************************************************************)
(* Model of the flow-field particle animation (src/src/main.rs).           *)
(*                                                                         *)
(* The Bevy app runs four systems in the Update schedule every frame:      *)
(* move_particles, keyboard_input, ensure_particle_count and               *)
(* window_resize.  They are added without ordering constraints, so the     *)
(* scheduler may run them in any order; systems with conflicting data      *)
(* access never overlap, so each system is one atomic step.  Commands      *)
(* (spawn, despawn, insert, remove, insert_resource) are deferred and      *)
(* applied after every system of the frame has run.                        *)
(*                                                                         *)
(* Coordinates are integers; one unit is SPEED_FACTOR pixels.  The window  *)
(* test x >= width/2 is written 2*x >= width so that odd widths need no    *)
(* fractions.  The Perlin generator belongs to the libnoise crate and is   *)
(* not modelled: a sample is any quarter turn.                             *)
(***************************************************************************)
EXTENDS Integers, Sequences, FiniteSets, TLC

\* ---- program constants ------------------------------------------------------
\* The window, the population and the default luminosity are scaled down from
\* the source's 1200 x 800, 2000 and 20: the code compares and combines them
\* and never depends on their magnitude.  SPEED_FACTOR is the source's value.
WIDTH == 2
HEIGHT == 2
NUM_PARTICLES == 1
SPEED_FACTOR == 1
LUMINOSITY == 1

\* ---- bounds of the model ----------------------------------------------------

MaxChord == 2          \* keys that may be just-pressed in the same frame
MaxSeed == 1           \* seeds (seconds of the clock) are 0..MaxSeed
MaxRescale == 1        \* noise_scale is kept <= 2^MaxRescale times its start
MaxLumRise == 1        \* luminosity is kept <= LUMINOSITY + MaxLumRise
MaxLumBelowZero == 1   \* luminosity is kept >= -MaxLumBelowZero
MaxCount == 3          \* SpecCount: store sizes and targets are 0..MaxCount

BLACK == "BLACK"
WHITE == "WHITE"
Palette == {BLACK, WHITE}

Keys == {"Space", "Up", "Down", "R", "I", "N", "A", "D"}
KeySets == {ks \in SUBSET Keys : Cardinality(ks) <= MaxChord}
RefreshKeys == {"R", "I", "N", "A", "D"}

Systems == {"move_particles", "keyboard_input", "ensure_particle_count", "window_resize"}

Seeds == 0..MaxSeed

RECURSIVE Pow2(_)
Pow2(n) == IF n = 0 THEN 1 ELSE 2 * Pow2(n - 1)

\* noise_scale is stored in units of its start value 0.001; values below the
\* start value are not modelled
ScaleStart == 1
ScaleMin == ScaleStart
ScaleMax == ScaleStart * Pow2(MaxRescale)

LumMin == 0 - MaxLumBelowZero
LumMax == LUMINOSITY + MaxLumRise

NoEffect == [none |-> TRUE]

VARIABLES
    entities,        \* sequence of [id, x, y, effect], in query iteration order
    next_id,         \* next fresh entity id
    window_size,     \* WindowSize resource
    noise_gen,       \* NoiseGen resource
    color_scheme,    \* ColorScheme resource
    particle_count,  \* ParticleCount resource
    clear_color,     \* ClearColor resource
    keys,            \* keys just pressed, as keyboard_input saw them this frame
    commands,        \* deferred command queues of this frame, by system
    pending,         \* systems of the schedule that have not run yet this frame
    schedule         \* systems in the Update schedule

vars == <<entities, next_id, window_size, noise_gen, color_scheme, particle_count,
          clear_color, keys, commands, pending, schedule>>

\* ---- types and pure helpers ---------------------------------------------
ColorScheme_default == [background |-> BLACK, particle |-> WHITE, luminosity |-> LUMINOSITY]

ColorScheme_random == {[background |-> b, particle |-> p, luminosity |-> LUMINOSITY] :
                          b \in Palette, p \in Palette}

ColorScheme_inverse(cs) ==
    [background |-> cs.particle, particle |-> cs.background, luminosity |-> cs.luminosity]

\* x = r * width - width/2 with r in [0, 1)
RandomCoord(extent) ==
    {c \in (0 - extent)..extent :
        /\ 0 - extent <= 2 * c
        /\ 2 * c < extent \/ (extent = 0 /\ c = 0)}

Particle_random(width, height) ==
    {[x |-> px, y |-> py] : px \in RandomCoord(width), py \in RandomCoord(height)}

Perlin(seed) == [seed |-> seed]

\* NoiseGen::gen: the sample at (x + width/2, y + height/2) * noise_scale, as the
\* set of quarter turns the generator may return
NoiseGen_gen(ng, x, y, width, height) == 0..3

Cos(q) == CASE q = 0 -> 1 [] q = 1 -> 0 [] q = 2 -> -1 [] q = 3 -> 0
Sin(q) == CASE q = 0 -> 0 [] q = 1 -> 1 [] q = 2 -> 0 [] q = 3 -> -1

OutOfBounds(p, ws) ==
    \/ 2 * p.x >= ws.width
    \/ 2 * p.y >= ws.height
    \/ 2 * p.x <= 0 - ws.width
    \/ 2 * p.y <= 0 - ws.height

\* move_particles queries (Particle, Transform); an entity gets its Transform
\* from the ParticleEffectBundle that add_particle_effects inserts
HasTransform(e) == e.effect # NoEffect

\* the trail effect add_particle_effects builds for one entity
TrailEffect(cs) == [color |-> cs.particle, luminosity |-> cs.luminosity]

\* all sequences s with s[i] \in choices[i]
RECURSIVE SeqProduct(_)
SeqProduct(choices) ==
    IF choices = <<>> THEN {<<>>}
    ELSE {<<h>> \o t : h \in Head(choices), t \in SeqProduct(Tail(choices))}

SizeSet == {[width |-> WIDTH, height |-> HEIGHT], [width |-> WIDTH + 2, height |-> HEIGHT]}
ResizeEvents == {<<>>} \cup {<<s>> : s \in SizeSet} \cup {<<s, t>> : s \in SizeSet, t \in SizeSet}

\* ---- deferred commands ----------------------------------------------------
World == [entities |-> entities, next_id |-> next_id, clear_color |-> clear_color]

ApplyCommand(w, c) ==
    CASE c.op = "spawn" ->
           [w EXCEPT !.entities = Append(@, [id |-> w.next_id, x |-> c.particle.x,
                                              y |-> c.particle.y, effect |-> NoEffect]),
                     !.next_id = @ + 1]
      [] c.op = "despawn" ->
           [w EXCEPT !.entities = SelectSeq(@, LAMBDA e : e.id # c.id)]
      [] c.op = "remove" ->
           [w EXCEPT !.entities = [i \in DOMAIN @ |->
                IF @[i].id = c.id THEN [@[i] EXCEPT !.effect = NoEffect] ELSE @[i]]]
      [] c.op = "insert" ->
           [w EXCEPT !.entities = [i \in DOMAIN @ |->
                IF @[i].id = c.id THEN [@[i] EXCEPT !.effect = c.effect] ELSE @[i]]]
      [] c.op = "clear_color" ->
           [w EXCEPT !.clear_color = c.color]

RECURSIVE ApplyCommands(_, _)
ApplyCommands(w, cs) ==
    IF cs = <<>> THEN w ELSE ApplyCommands(ApplyCommand(w, Head(cs)), Tail(cs))

add_particle_effects(ents, cs) ==
    <<[op |-> "clear_color", color |-> cs.background]>>
    \o [i \in 1..Len(ents) |-> [op |-> "insert", id |-> ents[i].id, effect |-> TrailEffect(cs)]]

change_particle_effects(ents, cs) ==
    [i \in 1..Len(ents) |-> [op |-> "remove", id |-> ents[i].id]]
    \o add_particle_effects(ents, cs)

NoCommands == [s \in Systems |-> <<>>]

\* ---- initial state: after Startup (add_particles) and PostStartup (draw_trails)
add_particles(n, ws) ==
    {[i \in 1..n |-> [id |-> i, x |-> ps[i].x, y |-> ps[i].y, effect |-> NoEffect]] :
        ps \in SeqProduct([i \in 1..n |-> Particle_random(ws.width, ws.height)])}

draw_trails(ents, cs) ==
    ApplyCommands([entities |-> ents, next_id |-> Len(ents) + 1, clear_color |-> BLACK],
                  add_particle_effects(ents, cs))

Init ==
    /\ window_size = [width |-> WIDTH, height |-> HEIGHT]
    /\ \E s \in Seeds : noise_gen = [gen |-> Perlin(s), seed |-> s, noise_scale |-> ScaleStart]
    /\ particle_count = NUM_PARTICLES
    /\ color_scheme = ColorScheme_default
    /\ \E ents \in add_particles(particle_count, window_size) :
          LET w == draw_trails(ents, color_scheme) IN
          /\ entities = w.entities
          /\ next_id = w.next_id
          /\ clear_color = w.clear_color
    /\ keys = {}
    /\ commands = NoCommands
    /\ schedule = Systems
    /\ pending = Systems

\* ---- systems --------------------------------------------------------------
\* mutant: a system that stays in the frame's run list after it has run
Retire_Stay(system) ==
    /\ system \in pending
    /\ pending' = pending

Retire(system) ==
    /\ system \in pending
    /\ pending' = pending \ {system}

window_resize_result(ws, events) ==
    IF events = <<>> THEN ws ELSE events[Len(events)]

WindowResize ==
    /\ Retire("window_resize")
    /\ \E events \in ResizeEvents : window_size' = window_resize_result(window_size, events)
    /\ UNCHANGED <<entities, next_id, noise_gen, color_scheme, particle_count,
                   clear_color, keys, commands, schedule>>

\* mutant: move_particles without the bounds check and respawn
MoveOne_NoRespawn(e, ws, ng) ==
    {[e EXCEPT !.x = e.x + Cos(q) * SPEED_FACTOR, !.y = e.y + Sin(q) * SPEED_FACTOR] :
        q \in NoiseGen_gen(ng, e.x, e.y, ws.width, ws.height)}

\* one iteration of the loop of move_particles: the positions it may leave e at
MoveOne(e, ws, ng) ==
    LET starts == IF OutOfBounds(e, ws)
                  THEN Particle_random(ws.width, ws.height)
                  ELSE {[x |-> e.x, y |-> e.y]}
    IN  {[e EXCEPT !.x = p.x + Cos(q) * SPEED_FACTOR, !.y = p.y + Sin(q) * SPEED_FACTOR] :
            p \in starts, q \in NoiseGen_gen(ng, e.x, e.y, ws.width, ws.height)}

MoveParticles ==
    /\ Retire("move_particles")
    /\ entities' \in SeqProduct([i \in 1..Len(entities) |->
                        IF HasTransform(entities[i])
                        THEN MoveOne(entities[i], window_size, noise_gen)
                        ELSE {entities[i]}])
    /\ UNCHANGED <<next_id, window_size, noise_gen, color_scheme, particle_count,
                   clear_color, keys, commands, schedule>>

\* mutant: shrinking rate-limited to one particle per call, like growing
ensure_particle_count_GradualShrink(ents, target) ==
    IF Len(ents) < target
    THEN {<<[op |-> "spawn", particle |-> p]>> : p \in Particle_random(WIDTH, HEIGHT)}
    ELSE IF Len(ents) > target
    THEN {<<[op |-> "despawn", id |-> ents[1].id]>>}
    ELSE {<<>>}

\* mutant: <= for < in the growth test
ensure_particle_count_GrowAtTarget(ents, target) ==
    IF Len(ents) <= target
    THEN {<<[op |-> "spawn", particle |-> p]>> : p \in Particle_random(WIDTH, HEIGHT)}
    ELSE IF Len(ents) > target
    THEN {[i \in 1..(Len(ents) - target) |-> [op |-> "despawn", id |-> ents[i].id]]}
    ELSE {<<>>}

ensure_particle_count(ents, target) ==
    IF Len(ents) < target
    THEN {<<[op |-> "spawn", particle |-> p]>> : p \in Particle_random(WIDTH, HEIGHT)}
    ELSE IF Len(ents) > target
    THEN {[i \in 1..(Len(ents) - target) |-> [op |-> "despawn", id |-> ents[i].id]]}
    ELSE {<<>>}

EnsureParticleCount ==
    /\ Retire("ensure_particle_count")
    /\ \E cs \in ensure_particle_count(entities, particle_count) :
          commands' = [commands EXCEPT !["ensure_particle_count"] = cs]
    /\ UNCHANGED <<entities, next_id, window_size, noise_gen, color_scheme, particle_count,
                   clear_color, keys, schedule>>

\* mutant: if / if for if / else if, so that Down is applied after Up
noise_after_keys_NoElse(ng, ks, now) ==
    LET ng1 == IF "Space" \in ks
               THEN [ng EXCEPT !.seed = now, !.gen = Perlin(now)]
               ELSE ng
        ng2 == IF "Up" \in ks THEN [ng1 EXCEPT !.noise_scale = @ \div 2] ELSE ng1
    IN  IF "Down" \in ks THEN [ng2 EXCEPT !.noise_scale = @ * 2] ELSE ng2

\* keyboard_input, lines 213-222: reseed and rescale
noise_after_keys(ng, ks, now) ==
    LET ng1 == IF "Space" \in ks
               THEN [ng EXCEPT !.seed = now, !.gen = Perlin(now)]
               ELSE ng
    IN  IF "Up" \in ks THEN [ng1 EXCEPT !.noise_scale = @ \div 2]
        ELSE IF "Down" \in ks THEN [ng1 EXCEPT !.noise_scale = @ * 2]
        ELSE ng1

\* mutant: the width used for both coordinates
reset_particles_WidthTwice(ents, ws) ==
    SeqProduct([i \in 1..Len(ents) |->
        {[ents[i] EXCEPT !.x = p.x, !.y = p.y] : p \in Particle_random(ws.width, ws.width)}])

\* keyboard_input, lines 224-231: the particle stores the reset key may leave
reset_particles(ents, ws) ==
    SeqProduct([i \in 1..Len(ents) |->
        {[ents[i] EXCEPT !.x = p.x, !.y = p.y] : p \in Particle_random(ws.width, ws.height)}])

\* mutant: the luminosity clamped at zero
new_color_scheme_of_Floor(cs, ks, rnd) ==
    LET new1 == IF "N" \in ks THEN rnd ELSE cs
    IN  IF "A" \in ks
        THEN [new1 EXCEPT !.luminosity = IF @ - 1 < 0 THEN 0 ELSE @ - 1]
        ELSE IF "D" \in ks THEN [new1 EXCEPT !.luminosity = @ + 1]
        ELSE new1

\* mutant: the new random scheme keeps the current luminosity
new_color_scheme_of_KeepLum(cs, ks, rnd) ==
    LET new1 == IF "N" \in ks THEN [rnd EXCEPT !.luminosity = cs.luminosity] ELSE cs
    IN  IF "A" \in ks THEN [new1 EXCEPT !.luminosity = @ - 1]
        ELSE IF "D" \in ks THEN [new1 EXCEPT !.luminosity = @ + 1]
        ELSE new1

\* keyboard_input, lines 211 and 239-258: the local new_color_scheme, a clone of
\* the resource taken before any key is handled
new_color_scheme_of(cs, ks, rnd) ==
    LET new1 == IF "N" \in ks THEN rnd ELSE cs
    IN  IF "A" \in ks THEN [new1 EXCEPT !.luminosity = @ - 1]
        ELSE IF "D" \in ks THEN [new1 EXCEPT !.luminosity = @ + 1]
        ELSE new1

should_change_particle_effects(ks) == ks \cap RefreshKeys # {}

\* keyboard_input, lines 233-237 and 260-266: the ColorScheme resource; the
\* invert key writes the resource, the refresh then overwrites all its fields
stored_color_scheme(cs, ks, new) ==
    LET cs1 == IF "I" \in ks THEN ColorScheme_inverse(cs) ELSE cs
    IN  IF should_change_particle_effects(ks)
        THEN [cs1 EXCEPT !.particle = new.particle,
                         !.background = new.background,
                         !.luminosity = new.luminosity]
        ELSE cs1

\* mutant: the rebuild handed the scheme as it was at the start of the frame
keyboard_commands_OldScheme(ents, cs, new, ks) ==
    IF should_change_particle_effects(ks)
    THEN change_particle_effects(ents, cs)
    ELSE <<>>

\* keyboard_input, lines 260-262: the commands the refresh queues
keyboard_commands(ents, cs, new, ks) ==
    IF should_change_particle_effects(ks)
    THEN change_particle_effects(ents, new)
    ELSE <<>>

KeyboardInput ==
    /\ Retire("keyboard_input")
    /\ \E ks \in KeySets :
       \E now \in (IF "Space" \in ks THEN {s \in Seeds : s >= noise_gen.seed}
                   ELSE {noise_gen.seed}) :
       \E rnd \in (IF "N" \in ks THEN ColorScheme_random ELSE {color_scheme}) :
       \E reset \in (IF "R" \in ks THEN reset_particles(entities, window_size)
                     ELSE {entities}) :
          LET new_color_scheme == new_color_scheme_of(color_scheme, ks, rnd) IN
          \* the bounds of the model: a frame whose keys would take noise_scale or
          \* the luminosity out of the modelled range is not generated
          /\ "Up" \in ks => noise_gen.noise_scale > ScaleMin
          /\ ("Down" \in ks /\ "Up" \notin ks) => noise_gen.noise_scale < ScaleMax
          /\ LET base == IF "N" \in ks THEN rnd ELSE color_scheme IN
                /\ "A" \in ks => base.luminosity > LumMin
                /\ ("D" \in ks /\ "A" \notin ks) => base.luminosity < LumMax
          /\ keys' = ks
          /\ noise_gen' = noise_after_keys(noise_gen, ks, now)
          /\ entities' = reset
          /\ commands' = [commands EXCEPT !["keyboard_input"] =
                             keyboard_commands(entities, color_scheme, new_color_scheme, ks)]
          /\ color_scheme' = stored_color_scheme(color_scheme, ks, new_color_scheme)
    /\ UNCHANGED <<next_id, window_size, particle_count, clear_color, schedule>>

\* end of the frame: the deferred commands are applied, the next frame begins
ApplyDeferred ==
    /\ pending = {}
    /\ LET w == ApplyCommands(World, commands["keyboard_input"]
                                      \o commands["ensure_particle_count"]) IN
       /\ entities' = w.entities
       /\ next_id' = w.next_id
       /\ clear_color' = w.clear_color
    /\ commands' = NoCommands
    /\ keys' = {}
    /\ pending' = schedule
    /\ UNCHANGED <<window_size, noise_gen, color_scheme, particle_count, schedule>>

Next ==
    \/ MoveParticles
    \/ KeyboardInput
    \/ EnsureParticleCount
    \/ WindowResize
    \/ ApplyDeferred

Spec == Init /\ [][Next]_vars

\* ---- ensure_particle_count on arbitrary store sizes and targets -------------
\* The schedule holds ensure_particle_count alone; the store starts with any
\* number of particles and ParticleCount with any target.
InitCount ==
    /\ window_size = [width |-> WIDTH, height |-> HEIGHT]
    /\ noise_gen = [gen |-> Perlin(0), seed |-> 0, noise_scale |-> ScaleStart]
    /\ particle_count \in 0..MaxCount
    /\ color_scheme = ColorScheme_default
    /\ \E n \in 0..MaxCount : \E ents \in add_particles(n, window_size) :
          LET w == draw_trails(ents, color_scheme) IN
          /\ entities = w.entities
          /\ next_id = w.next_id
          /\ clear_color = w.clear_color
    /\ keys = {}
    /\ commands = NoCommands
    /\ schedule = {"ensure_particle_count"}
    /\ pending = schedule

NextCount ==
    \/ EnsureParticleCount
    \/ ApplyDeferred

SpecCount == InitCount /\ [][NextCount]_vars

\* the frame loop never stops: a frame that can take a step takes it
SpecCountFair == SpecCount /\ WF_vars(NextCount)

\* ---- properties -------------------------------------------------------------
Ran(system) == system \in schedule /\ system \notin pending
StepOf(system) == system \in pending /\ pending' = pending \ {system}
Ids(ents) == [i \in 1..Len(ents) |-> ents[i].id]
Positions(ents) == [i \in 1..Len(ents) |-> <<ents[i].id, ents[i].x, ents[i].y>>]
RefreshQueue == commands["keyboard_input"]

\* C1 as stated: after any call of move_particles every particle satisfies
\* |x| < width/2 and |y| < height/2 for the current WindowSize.
C1_StrictlyInsideAfterMove ==
    [][StepOf("move_particles") =>
          \A i \in 1..Len(entities') :
             /\ 0 - window_size'.width < 2 * entities'[i].x
             /\ 2 * entities'[i].x < window_size'.width
             /\ 0 - window_size'.height < 2 * entities'[i].y
             /\ 2 * entities'[i].y < window_size'.height]_vars

\* C1 amended: the bounds check comes before the move, so after a call of
\* move_particles every particle it moved is within SPEED_FACTOR of the window:
\* |x| <= width/2 + SPEED_FACTOR and |y| <= height/2 + SPEED_FACTOR.
C1_WithinOneStepOfWindow ==
    [][StepOf("move_particles") =>
          \A i \in 1..Len(entities') :
             HasTransform(entities[i]) =>
                /\ 0 - (window_size.width + 2 * SPEED_FACTOR) <= 2 * entities'[i].x
                /\ 2 * entities'[i].x <= window_size.width + 2 * SPEED_FACTOR
                /\ 0 - (window_size.height + 2 * SPEED_FACTOR) <= 2 * entities'[i].y
                /\ 2 * entities'[i].y <= window_size.height + 2 * SPEED_FACTOR]_vars

\* a particle that move_particles has just left outside the window it checked
C1_Witness ==
    /\ Ran("move_particles")
    /\ "window_resize" \in pending
    /\ "keyboard_input" \in pending
    /\ \E i \in 1..Len(entities) :
          \/ 2 * entities[i].x > window_size.width
          \/ 2 * entities[i].x < 0 - window_size.width
          \/ 2 * entities[i].y > window_size.height
          \/ 2 * entities[i].y < 0 - window_size.height

\* C2 as stated: a frame in which the invert key (and no other colour key) is
\* just pressed stores the scheme with background and particle colour swapped and
\* luminosity unchanged, and flags a refresh.
C2_InvertSwapsColors ==
    [][(StepOf("keyboard_input") /\ "I" \in keys' /\ keys' \cap {"N", "A", "D"} = {}) =>
          /\ color_scheme'.background = color_scheme.particle
          /\ color_scheme'.particle = color_scheme.background
          /\ color_scheme'.luminosity = color_scheme.luminosity
          /\ commands'["keyboard_input"] # <<>>]_vars

\* C3: one call of ensure_particle_count queues exactly one spawn when the store is
\* below the target, exactly (count - target) despawns of distinct particles when it
\* is above, and nothing when it is at the target; applying the queue changes the
\* count accordingly; and the population reaches the target and stays there.
C3_EnforceCount ==
    /\ [][LET n == Len(entities)
              t == particle_count
              q == commands'["ensure_particle_count"]
          IN  /\ StepOf("ensure_particle_count") =>
                    /\ entities' = entities
                    /\ n < t => (Len(q) = 1 /\ q[1].op = "spawn")
                    /\ n > t =>
                          /\ Len(q) = n - t
                          /\ \A i \in 1..Len(q) :
                                /\ q[i].op = "despawn"
                                /\ \E j \in 1..n : entities[j].id = q[i].id
                          /\ \A i, j \in 1..Len(q) : q[i].id = q[j].id => i = j
                    /\ n = t => q = <<>>
              /\ (pending = {} /\ pending' # {}) =>
                    /\ n < t => Len(entities') = n + 1
                    /\ n > t => Len(entities') = t
                    /\ n = t => entities' = entities]_vars
    /\ <>[](Len(entities) = particle_count)

\* a bulk shrink: one call has queued the removal of two or more particles
C3_Witness ==
    /\ Ran("ensure_particle_count")
    /\ Len(commands["ensure_particle_count"]) >= 2
    /\ \A i \in 1..Len(commands["ensure_particle_count"]) :
          commands["ensure_particle_count"][i].op = "despawn"

\* C4 as stated: in any frame where A is just pressed the stored luminosity
\* decreases by exactly 1, and in any frame where D is just pressed it increases
\* by exactly 1.
C4_LuminosityKeysInAnyFrame ==
    [][StepOf("keyboard_input") =>
          /\ "A" \in keys' => color_scheme'.luminosity = color_scheme.luminosity - 1
          /\ "D" \in keys' => color_scheme'.luminosity = color_scheme.luminosity + 1]_vars

\* C4 amended: A decreases the stored luminosity by exactly 1 and D increases it by
\* exactly 1 only when A is not pressed in the same frame (A wins over D), both in
\* frames without the new-color key; there is no floor at zero.
C4_LuminosityKeys ==
    [][StepOf("keyboard_input") =>
          /\ ("A" \in keys' /\ "N" \notin keys') =>
                color_scheme'.luminosity = color_scheme.luminosity - 1
          /\ ("D" \in keys' /\ "A" \notin keys' /\ "N" \notin keys') =>
                color_scheme'.luminosity = color_scheme.luminosity + 1]_vars

\* the decrement key has just taken the luminosity below zero
C4_Witness ==
    /\ Ran("keyboard_input")
    /\ "A" \in keys
    /\ color_scheme.luminosity < 0

\* C5 as stated: Up halves noise_scale and Down doubles it; neither changes seed,
\* generator, ColorScheme, particle positions or the refresh flag; Space replaces
\* seed and generator and leaves noise_scale unchanged.  A state a key does not
\* own is compared in the frames where the keys that own it are not pressed.
C5_RescaleAndReseedAsStated ==
    [][StepOf("keyboard_input") =>
          /\ "Up" \in keys' => 2 * noise_gen'.noise_scale = noise_gen.noise_scale
          /\ "Down" \in keys' => noise_gen'.noise_scale = 2 * noise_gen.noise_scale
          /\ (keys' \cap {"Up", "Down"} # {} /\ "Space" \notin keys') =>
                (noise_gen'.seed = noise_gen.seed /\ noise_gen'.gen = noise_gen.gen)
          /\ (keys' \cap {"Up", "Down"} # {} /\ keys' \cap RefreshKeys = {}) =>
                /\ color_scheme' = color_scheme
                /\ Positions(entities') = Positions(entities)
                /\ commands' = commands
          /\ "Space" \in keys' => noise_gen'.gen = Perlin(noise_gen'.seed)
          /\ ("Space" \in keys' /\ keys' \cap {"Up", "Down"} = {}) =>
                noise_gen'.noise_scale = noise_gen.noise_scale]_vars

\* C5 amended: as stated, except that Down doubles noise_scale only when Up is not
\* pressed in the same frame (with both pressed the scale is halved).
C5_RescaleAndReseed ==
    [][StepOf("keyboard_input") =>
          /\ "Up" \in keys' => 2 * noise_gen'.noise_scale = noise_gen.noise_scale
          /\ ("Down" \in keys' /\ "Up" \notin keys') =>
                noise_gen'.noise_scale = 2 * noise_gen.noise_scale
          /\ (keys' \cap {"Up", "Down"} # {} /\ "Space" \notin keys') =>
                (noise_gen'.seed = noise_gen.seed /\ noise_gen'.gen = noise_gen.gen)
          /\ (keys' \cap {"Up", "Down"} # {} /\ keys' \cap RefreshKeys = {}) =>
                /\ color_scheme' = color_scheme
                /\ Positions(entities') = Positions(entities)
                /\ commands' = commands
          /\ "Space" \in keys' => noise_gen'.gen = Perlin(noise_gen'.seed)
          /\ ("Space" \in keys' /\ keys' \cap {"Up", "Down"} = {}) =>
                noise_gen'.noise_scale = noise_gen.noise_scale]_vars

\* Up and Down pressed in the same frame, after an earlier doubling
C5_Witness ==
    /\ Ran("keyboard_input")
    /\ {"Up", "Down"} \subseteq keys
    /\ noise_gen.noise_scale = ScaleStart

C7_RefreshUsesStoredScheme ==
    LET q == RefreshQueue
        built == [color |-> color_scheme.particle, luminosity |-> color_scheme.luminosity]
    IN  /\ (Ran("keyboard_input") /\ keys \cap RefreshKeys # {}) =>
              /\ \A i \in 1..Len(entities) :
                    \E j, k \in 1..Len(q) :
                       /\ j < k
                       /\ q[j] = [op |-> "remove", id |-> entities[i].id]
                       /\ q[k] = [op |-> "insert", id |-> entities[i].id, effect |-> built]
              /\ \E j \in 1..Len(q) : q[j].op = "clear_color"
              /\ \A j \in 1..Len(q) :
                    /\ q[j].op = "clear_color" => q[j].color = color_scheme.background
                    /\ q[j].op = "insert" => q[j].effect = built
        /\ (keys \cap RefreshKeys = {}) => q = <<>>
        /\ q = <<>> =>
              /\ \A i \in 1..Len(entities) : entities[i].effect = built
              /\ clear_color = color_scheme.background

\* a rebuild with a scheme other than the startup one has been applied
C7_Witness ==
    /\ pending = schedule
    /\ Len(entities) > 0
    /\ \A i \in 1..Len(entities) :
          /\ entities[i].effect # NoEffect
          /\ entities[i].effect # [color |-> WHITE, luminosity |-> LUMINOSITY]
          /\ entities[i].effect.color = color_scheme.particle

\* C8 as stated: in every frame keyboard_input runs before move_particles, which
\* runs before ensure_particle_count.
C8_InputThenMoveThenCount ==
    /\ Ran("move_particles") => Ran("keyboard_input")
    /\ Ran("ensure_particle_count") => Ran("move_particles")

\* C8 amended: every frame runs each of the four systems exactly once, in no fixed
\* order, each as one step; NoiseGen and ColorScheme are written only by the
\* keyboard_input step and WindowSize only by the window_resize step, positions
\* only by the move_particles and keyboard_input steps, and the deferred commands
\* take effect only after all four have run.
C8_OncePerFrameAnyOrder ==
    [][/\ pending' # pending =>
             \/ (pending = {} /\ pending' = Systems)
             \/ \E s \in Systems : StepOf(s)
       /\ (noise_gen' # noise_gen \/ color_scheme' # color_scheme \/ keys' \notin {keys, {}}) =>
             StepOf("keyboard_input")
       /\ window_size' # window_size => StepOf("window_resize")
       /\ Positions(entities') # Positions(entities) =>
             (StepOf("move_particles") \/ StepOf("keyboard_input"))
       /\ commands'["ensure_particle_count"] # commands["ensure_particle_count"] =>
             (StepOf("ensure_particle_count") \/ pending = {})
       /\ ([i \in 1..Len(entities') |-> entities'[i].effect]
              # [i \in 1..Len(entities) |-> entities[i].effect]
           \/ clear_color' # clear_color) => pending = {}]_vars

\* move_particles has run in a frame before keyboard_input
C8_Witness ==
    /\ Ran("move_particles")
    /\ "keyboard_input" \in pending
    /\ Ran("ensure_particle_count")

\* C9: the store always holds exactly ParticleCount = NUM_PARTICLES particles, and
\* ensure_particle_count never queues a spawn or a despawn.
C9_PopulationConstant ==
    /\ particle_count = NUM_PARTICLES
    /\ Len(entities) = particle_count
    /\ commands["ensure_particle_count"] = <<>>
    /\ next_id = NUM_PARTICLES + 1

\* ensure_particle_count has run after a reset, a refresh and a resize
C9_Witness ==
    /\ Ran("ensure_particle_count")
    /\ Ran("keyboard_input")
    /\ Ran("move_particles")
    /\ "R" \in keys
    /\ window_size.width # WIDTH

\* C10: a frame in which the new-color key is just pressed stores the default
\* luminosity adjusted only by that frame's luminosity key: LUMINOSITY - 1 with A,
\* LUMINOSITY + 1 with D and not A, else LUMINOSITY, whatever it was before.
C10_NewColorResetsLuminosity ==
    [][(StepOf("keyboard_input") /\ "N" \in keys') =>
          color_scheme'.luminosity =
             IF "A" \in keys' THEN LUMINOSITY - 1
             ELSE IF "D" \in keys' THEN LUMINOSITY + 1
             ELSE LUMINOSITY]_vars

\* the new-color key pressed with A: the luminosity is one below the default
C10_Witness ==
    /\ Ran("keyboard_input")
    /\ {"N", "A"} \subseteq keys
    /\ color_scheme.luminosity = LUMINOSITY - 1
    /\ \E i \in 1..Len(entities) :
          entities[i].effect # NoEffect /\ entities[i].effect.luminosity # LUMINOSITY

====
